---- MODULE Spec2Model ----
(***************************************************************************)
(* Model of src/components/hook/AnimatedButton.tsx (one mounted instance   *)
(* of the AnimatedButton component, its effects, timers and handlers) and  *)
(* of src/components/hook/getCard.tsx (the cardClick / cardHover style     *)
(* calculators).                                                           *)
(*                                                                         *)
(* Numbers are fixed point, exact for every product the source computes:   *)
(*   scrollProgress   in 1/1000      (0.01 is 10, 1 is 1000)               *)
(*   shadowIntensity  in 1/10000     (1 is 10000, 1.2 * progress is 12*p)  *)
(*   scale            in 1/100000    (0.98 is 98000, 0.02*progress is 2*p) *)
(*   button pixels    in 1/20000 px  (subtleFactor is kept in halves)      *)
(*   card pixels      in 1/10000 px                                        *)
(* The one division of the source (distance / maxDistance) is truncated to *)
(* 1/1000.                                                                 *)
(***************************************************************************)
EXTENDS Integers, Sequences, FiniteSets, TLC

VARIABLES
  phase,           \* "init" (rendered, effects not yet run), "mounted", "unmounted"
  variant,         \* prop variant: "default" | "subtle"
  hasParentRef,    \* parentRef?.current is an element
  buttonVisible,   \* prop buttonVisible
  theme,           \* useTheme().theme / the 'dark' class of the document
  isPressed,       \* useState(false)
  scrollProgress,  \* useState(0), in 1/1000
  contentVisible,  \* useState(false)
  revealTimer,     \* the 500ms timer: "none" | "pending" | "fired" | "cleared"
  themeTimers,     \* number of pending 50ms follow-up timers
  windowHeight,    \* window.innerHeight
  scrollY,         \* window.scrollY
  lastWritten,     \* the value the last handleScroll passed to setScrollProgress
  style,           \* the style descriptor of the last render
  args,            \* inputs of the last style-policy call
  result           \* policy, shadowIntensity and descriptor of the last policy call

vars == <<phase, variant, hasParentRef, buttonVisible, theme, isPressed,
          scrollProgress, contentVisible, revealTimer, themeTimers,
          windowHeight, scrollY, lastWritten, style, args, result>>

buttonVars == <<phase, variant, hasParentRef, buttonVisible, theme, isPressed,
                scrollProgress, contentVisible, revealTimer, themeTimers,
                windowHeight, scrollY, lastWritten, style>>

policyVars == <<args, result>>

----------------------------------------------------------------------------
(* Bounds and inputs *)

MaxThemeTimers == 2

ElementTop == 660

ElementHeight == 80

WindowHeights == {200, 1000}

ScrollYs == {0, 100, 105, 200, 340, 500, 540}

Variants == {"default", "subtle"}

Themes == {"light", "dark"}

GridSteps == 12

ProgressGrid == {(1000 * i) \div GridSteps : i \in 0..GridSteps}

----------------------------------------------------------------------------
(* Arithmetic helpers *)

MathMax(a, b) == IF a >= b THEN a ELSE b

MathMin(a, b) == IF a <= b THEN a ELSE b

MathAbs(a) == IF a >= 0 THEN a ELSE 0 - a

----------------------------------------------------------------------------
(* getButtonStyles *)

ButtonShadowIntensity(v, sp) ==
  LET baseIntensity == IF v = "subtle" THEN 5000 ELSE 10000
      scrollEffect  == sp * (IF v = "subtle" THEN 6 ELSE 12)
  IN  MathMax(baseIntensity - scrollEffect, 0)

ButtonScalePressedFirst(visible, pressed) ==
  IF pressed THEN 98000 ELSE IF visible THEN 100000 ELSE 95000

ButtonScale(visible, pressed) ==
  IF visible THEN (IF pressed THEN 98000 ELSE 100000) ELSE 95000

NoShadow ==
  [kind |-> "none", x1 |-> 0, blur1 |-> 0, c1 |-> "", x2 |-> 0, blur2 |-> 0,
   c2 |-> "", glow |-> 0, c3 |-> "", alpha |-> ""]

ButtonOuterShadow(v, sp, dark) ==
  LET shadowIntensity == ButtonShadowIntensity(v, sp)
      subtleFactor2   == IF v = "subtle" THEN 1 ELSE 2
  IN  [kind  |-> "outer",
       x1    |-> 16 * shadowIntensity * subtleFactor2,
       blur1 |-> 32 * shadowIntensity * 2,
       c1    |-> IF dark THEN "#151515" ELSE "#d1d1d1",
       x2    |-> (0 - 16) * shadowIntensity * subtleFactor2,
       blur2 |-> 32 * shadowIntensity * 2,
       c2    |-> IF dark THEN "#353535" ELSE "#ffffff",
       glow  |-> 15 * shadowIntensity * 2,
       c3    |-> IF dark THEN "rgba(21, 21, 21" ELSE "rgba(209, 209, 209",
       alpha |-> IF v = "subtle" THEN "0.4" ELSE "0.7"]

ButtonInsetShadow(v, dark) ==
  LET subtleFactor2 == IF v = "subtle" THEN 1 ELSE 2
  IN  [kind  |-> "inset",
       x1    |-> 12 * subtleFactor2 * 10000,
       blur1 |-> 24 * subtleFactor2 * 10000,
       c1    |-> IF dark THEN "#151515" ELSE "#d1d1d1",
       x2    |-> (0 - 12) * subtleFactor2 * 10000,
       blur2 |-> 24 * subtleFactor2 * 10000,
       c2    |-> IF dark THEN "#353535" ELSE "#ffffff",
       glow  |-> 15 * subtleFactor2 * 10000,
       c3    |-> IF dark THEN "rgba(21, 21, 21" ELSE "rgba(209, 209, 209",
       alpha |-> IF v = "subtle" THEN "0.4" ELSE "0.7"]

getButtonStyles(pressed, visible, sp, v, th) ==
  LET isDark == th = "dark"
      shadow == IF pressed THEN ButtonInsetShadow(v, isDark)
                           ELSE ButtonOuterShadow(v, sp, isDark)
  IN  [transform |-> ButtonScale(visible, pressed),
       boxShadow |-> IF visible THEN shadow ELSE NoShadow,
       opacity   |-> 1,
       transitionProperty |-> "transform, box-shadow",
       transitionDuration |-> "200ms",
       transitionTimingFunction |-> "cubic-bezier(0.4, 0, 0.2, 1)"]

----------------------------------------------------------------------------
(* getCard.tsx: cardClick *)

CardClickScaleVisibleFirst(pressed, visible, sp) ==
  IF visible THEN 100000 - sp * 2 ELSE IF pressed THEN 98000 ELSE 95000

CardClickScale(pressed, visible, sp) ==
  IF pressed THEN 98000 ELSE IF visible THEN 100000 - sp * 2 ELSE 95000

CardClickShadowIntensityNoFloor(sp) == 10000 - sp * 12

CardClickShadowIntensity(sp) ==
  LET baseIntensity == 10000
      scrollEffect  == sp * 12
  IN  MathMax(baseIntensity - scrollEffect, 0)

CardClickShadow(pressed, sp, dark) ==
  LET shadowIntensity == CardClickShadowIntensity(sp)
  IN  IF pressed
        THEN [kind  |-> "inset",
              x1    |-> 24 * 10000,
              blur1 |-> 48 * 10000,
              c1    |-> IF dark THEN "#151515" ELSE "#d1d1d1",
              x2    |-> (0 - 24) * 10000,
              blur2 |-> 48 * 10000,
              c2    |-> IF dark THEN "#353535" ELSE "#ffffff",
              glow  |-> 30 * 10000,
              c3    |-> IF dark THEN "rgba(21, 21, 21" ELSE "rgba(209, 209, 209",
              alpha |-> "0.7"]
        ELSE [kind  |-> "outer",
              x1    |-> 32 * shadowIntensity,
              blur1 |-> 64 * shadowIntensity,
              c1    |-> IF dark THEN "#151515" ELSE "#d1d1d1",
              x2    |-> (0 - 32) * shadowIntensity,
              blur2 |-> 64 * shadowIntensity,
              c2    |-> IF dark THEN "#353535" ELSE "#ffffff",
              glow  |-> 30 * shadowIntensity,
              c3    |-> IF dark THEN "rgba(21, 21, 21" ELSE "rgba(209, 209, 209",
              alpha |-> "0.7"]

cardClick(pressed, visible, sp, th) ==
  [policy          |-> "cardClick",
   shadowIntensity |-> CardClickShadowIntensity(sp),
   scale           |-> CardClickScale(pressed, visible, sp),
   boxShadow       |-> CardClickShadow(pressed, sp, th = "dark")]

----------------------------------------------------------------------------
(* getCard.tsx: cardHover *)

CardHoverScaleShrink(visible, sp, hovered) ==
  IF visible THEN (IF hovered THEN 102000 ELSE 100000) ELSE 100000 - sp * 2

CardHoverScale(visible, sp, hovered) ==
  IF visible
    THEN (IF hovered THEN 102000 ELSE 100000)
    ELSE (IF visible THEN 100000 - sp * 2 ELSE 95000)

CardHoverShadowIntensity(hovered, sp) ==
  LET baseIntensity == IF hovered THEN 8000 ELSE 6000
      scrollEffect  == sp * 12
  IN  MathMax(baseIntensity - scrollEffect, 0)

CardHoverShadow(hovered, sp, dark) ==
  LET shadowIntensity == CardHoverShadowIntensity(hovered, sp)
  IN  [kind  |-> "outer",
       x1    |-> 16 * shadowIntensity,
       blur1 |-> 32 * shadowIntensity,
       c1    |-> IF dark THEN "#151515" ELSE "#d1d1d1",
       x2    |-> (0 - 16) * shadowIntensity,
       blur2 |-> 32 * shadowIntensity,
       c2    |-> IF dark THEN "#353535" ELSE "#ffffff",
       glow  |-> 20 * shadowIntensity,
       c3    |-> IF dark THEN "rgba(21, 21, 21" ELSE "rgba(209, 209, 209",
       alpha |-> "0.5"]

cardHover(visible, sp, hovered, th) ==
  [policy          |-> "cardHover",
   shadowIntensity |-> CardHoverShadowIntensity(hovered, sp),
   scale           |-> CardHoverScale(visible, sp, hovered),
   boxShadow       |-> CardHoverShadow(hovered, sp, th = "dark")]

\* getButtonStyles seen as a policy of its inputs
buttonPolicy(pressed, visible, sp, v, th) ==
  LET s == getButtonStyles(pressed, visible, sp, v, th)
  IN  [policy          |-> "button",
       shadowIntensity |-> ButtonShadowIntensity(v, sp),
       scale           |-> s.transform,
       boxShadow       |-> s.boxShadow]

----------------------------------------------------------------------------
(* handleScroll *)

\* rect.top of the parent element at scroll offset y
RectTop(y) == ElementTop - y

\* 2 * Math.abs(elementCenter - viewportCenter)
DistanceFromCenter2(y, wh) == MathAbs(2 * RectTop(y) + ElementHeight - wh)

\* the argument handleScroll passes to setScrollProgress
HandleScrollValue(parent, y, wh) ==
  IF parent
    THEN LET d2       == DistanceFromCenter2(y, wh)
             progress == MathMin(MathMax((d2 * 10000) \div (6 * wh), 0), 1000)
         IN  IF d2 < 2 * 100 THEN 0 ELSE progress
    ELSE MathMin(MathMax((y * 10000) \div (3 * wh), 0), 1000)

----------------------------------------------------------------------------
(* Effects *)

\* cleanup of the content-reveal effect: clearTimeout(timer)
RevealCleanupNone(timer) == timer

RevealCleanup(timer) == IF timer = "pending" THEN "cleared" ELSE timer

\* forceUpdate(): the immediate increment; the decrement is ThemeTimerFire
ForceUpdate(sp) == sp + 10

Render(pressed, visible, sp, th) == getButtonStyles(pressed, visible, sp, variant, th)

----------------------------------------------------------------------------
(* Initial state: useState initial values, first render done, effects not   *)
(* yet run.                                                                 *)

PolicyIdle ==
  /\ args = [isPressed |-> FALSE, visible |-> FALSE, isHovered |-> FALSE,
             variant |-> "default", scrollProgress |-> 0, theme |-> "light"]
  /\ result = [policy |-> "none", shadowIntensity |-> 0, scale |-> 0,
               boxShadow |-> NoShadow]

Init ==
  /\ phase = "init"
  /\ variant \in Variants
  /\ hasParentRef \in BOOLEAN
  /\ buttonVisible \in BOOLEAN
  /\ theme \in Themes
  /\ windowHeight \in WindowHeights
  /\ scrollY = 0
  /\ isPressed = FALSE
  /\ scrollProgress = 0
  /\ contentVisible = FALSE
  /\ revealTimer = "none"
  /\ themeTimers = 0
  /\ lastWritten = 0
  /\ style = getButtonStyles(FALSE, buttonVisible, 0, variant, theme)
  /\ PolicyIdle

----------------------------------------------------------------------------
(* Actions of the AnimatedButton instance.  A prop, theme or state change   *)
(* is one step with the render it causes and the effects (cleanup first)    *)
(* whose dependencies changed; a timer callback is a step of its own and    *)
(* may run at any later point while the timer is pending.                   *)

\* first run of the three effects after the first render
Mount ==
  /\ phase = "init"
  /\ phase' = "mounted"
  /\ scrollProgress' = ForceUpdate(scrollProgress)
  /\ themeTimers' = themeTimers + 1
  /\ revealTimer' = IF buttonVisible THEN "pending" ELSE revealTimer
  /\ contentVisible' = IF buttonVisible THEN contentVisible ELSE FALSE
  /\ style' = Render(isPressed, buttonVisible, scrollProgress', theme)
  /\ UNCHANGED <<variant, hasParentRef, buttonVisible, theme, isPressed,
                 windowHeight, scrollY, lastWritten, args, result>>

\* the parent changes the buttonVisible prop: cleanup of the previous run of
\* the content-reveal effect, then the effect for the new value
SetButtonVisible(b) ==
  /\ phase = "mounted"
  /\ b # buttonVisible
  /\ buttonVisible' = b
  /\ LET cleaned == IF buttonVisible THEN RevealCleanup(revealTimer) ELSE revealTimer
     IN  /\ revealTimer' = IF b THEN "pending" ELSE cleaned
         /\ contentVisible' = IF b THEN contentVisible ELSE FALSE
  /\ style' = Render(isPressed, b, scrollProgress, theme)
  /\ UNCHANGED <<phase, variant, hasParentRef, theme, isPressed, scrollProgress,
                 themeTimers, windowHeight, scrollY, lastWritten, args, result>>

\* the 500ms timer callback: setContentVisible(true)
RevealTimerFire ==
  /\ revealTimer = "pending"
  /\ revealTimer' = "fired"
  /\ contentVisible' = IF phase = "mounted" THEN TRUE ELSE contentVisible
  /\ UNCHANGED <<phase, variant, hasParentRef, buttonVisible, theme, isPressed,
                 scrollProgress, themeTimers, windowHeight, scrollY, lastWritten,
                 style, args, result>>

\* the theme changes: the [theme] effect runs forceUpdate()
ThemeChange ==
  /\ phase = "mounted"
  /\ themeTimers < MaxThemeTimers
  /\ theme' = IF theme = "dark" THEN "light" ELSE "dark"
  /\ scrollProgress' = ForceUpdate(scrollProgress)
  /\ themeTimers' = themeTimers + 1
  /\ style' = Render(isPressed, buttonVisible, scrollProgress', theme')
  /\ UNCHANGED <<phase, variant, hasParentRef, buttonVisible, isPressed,
                 contentVisible, revealTimer, windowHeight, scrollY, lastWritten,
                 args, result>>

\* a 50ms follow-up timer fires: setScrollProgress(prev => Math.max(prev - 0.01, 0));
\* on an unmounted instance the update is dropped
ThemeTimerFire ==
  /\ themeTimers > 0
  /\ themeTimers' = themeTimers - 1
  /\ IF phase = "mounted"
       THEN /\ scrollProgress' = MathMax(scrollProgress - 10, 0)
            /\ style' = Render(isPressed, buttonVisible, scrollProgress', theme)
       ELSE UNCHANGED <<scrollProgress, style>>
  /\ UNCHANGED <<phase, variant, hasParentRef, buttonVisible, theme, isPressed,
                 contentVisible, revealTimer, windowHeight, scrollY, lastWritten,
                 args, result>>

\* a scroll event of the window: handleScroll
Scroll(y) ==
  /\ phase = "mounted"
  /\ scrollY' = y
  /\ scrollProgress' = HandleScrollValue(hasParentRef, y, windowHeight)
  /\ lastWritten' = scrollProgress'
  /\ style' = Render(isPressed, buttonVisible, scrollProgress', theme)
  /\ UNCHANGED <<phase, variant, hasParentRef, buttonVisible, theme, isPressed,
                 contentVisible, revealTimer, themeTimers, windowHeight, args, result>>

SetIsPressed(p) ==
  /\ phase = "mounted"
  /\ isPressed' = p
  /\ style' = Render(p, buttonVisible, scrollProgress, theme)
  /\ UNCHANGED <<phase, variant, hasParentRef, buttonVisible, theme,
                 scrollProgress, contentVisible, revealTimer, themeTimers,
                 windowHeight, scrollY, lastWritten, args, result>>

MouseDown == SetIsPressed(TRUE)

MouseUp == SetIsPressed(FALSE)

MouseLeave == SetIsPressed(FALSE)

TouchStart == SetIsPressed(TRUE)

TouchEnd == SetIsPressed(FALSE)

\* unmount: the cleanups of the content-reveal effect and of the scroll
\* listener effect run; the [theme] effect returns no cleanup
Unmount ==
  /\ phase = "mounted"
  /\ phase' = "unmounted"
  /\ revealTimer' = IF buttonVisible THEN RevealCleanup(revealTimer) ELSE revealTimer
  /\ UNCHANGED <<variant, hasParentRef, buttonVisible, theme, isPressed,
                 scrollProgress, contentVisible, themeTimers, windowHeight,
                 scrollY, lastWritten, style, args, result>>

Next ==
  \/ Mount
  \/ \E b \in BOOLEAN : SetButtonVisible(b)
  \/ RevealTimerFire
  \/ ThemeChange
  \/ ThemeTimerFire
  \/ \E y \in ScrollYs : Scroll(y)
  \/ MouseDown
  \/ MouseUp
  \/ MouseLeave
  \/ TouchStart
  \/ TouchEnd
  \/ Unmount

Spec == Init /\ [][Next]_vars

----------------------------------------------------------------------------
(* The three style policies as functions of their inputs: the inputs are    *)
(* drawn from bounded sets, the actions call a policy or change one input   *)
(* and call the same policy again.                                          *)

ArgSpace ==
  [isPressed : BOOLEAN, visible : BOOLEAN, isHovered : BOOLEAN,
   variant : Variants, scrollProgress : ProgressGrid, theme : Themes]

Evaluate(pol, a) ==
  IF pol = "button"
    THEN buttonPolicy(a.isPressed, a.visible, a.scrollProgress, a.variant, a.theme)
  ELSE IF pol = "cardClick"
    THEN cardClick(a.isPressed, a.visible, a.scrollProgress, a.theme)
    ELSE cardHover(a.visible, a.scrollProgress, a.isHovered, a.theme)

InitPolicies ==
  /\ phase = "init"
  /\ variant = "default"
  /\ hasParentRef = FALSE
  /\ buttonVisible = FALSE
  /\ theme = "light"
  /\ windowHeight = 1000
  /\ scrollY = 0
  /\ isPressed = FALSE
  /\ scrollProgress = 0
  /\ contentVisible = FALSE
  /\ revealTimer = "none"
  /\ themeTimers = 0
  /\ lastWritten = 0
  /\ style = getButtonStyles(FALSE, FALSE, 0, "default", "light")
  /\ args \in ArgSpace
  /\ result = [policy |-> "none", shadowIntensity |-> 0, scale |-> 0,
               boxShadow |-> NoShadow]

CallButton ==
  /\ result' = Evaluate("button", args)
  /\ UNCHANGED <<args, buttonVars>>

CallCardClick ==
  /\ result' = Evaluate("cardClick", args)
  /\ UNCHANGED <<args, buttonVars>>

CallCardHover ==
  /\ result' = Evaluate("cardHover", args)
  /\ UNCHANGED <<args, buttonVars>>

\* the caller's scroll progress changes and the same policy is called again
Rescroll(q) ==
  /\ result.policy # "none"
  /\ args' = [args EXCEPT !.scrollProgress = q]
  /\ result' = Evaluate(result.policy, args')
  /\ UNCHANGED buttonVars

NextPolicies ==
  \/ CallButton
  \/ CallCardClick
  \/ CallCardHover
  \/ \E q \in ProgressGrid : Rescroll(q)

SpecPolicies == InitPolicies /\ [][NextPolicies]_vars


----------------------------------------------------------------------------
(* Properties *)

\* C1: while buttonVisible is false the content flag is false and no reveal
\* timer is pending: a reveal timer started by a false -> true flip and still
\* pending at the true -> false flip is cancelled by the effect cleanup, so no
\* later step sets contentVisible while the button is hidden.
C1_HiddenContentNeverRevealed ==
  ~buttonVisible => (~contentVisible /\ revealTimer # "pending")

C1_Witness ==
  /\ phase = "mounted"
  /\ ~buttonVisible
  /\ revealTimer = "cleared"
  /\ ~contentVisible

\* C2: scrollProgress is in [0,1] in every reachable state.
C2_ScrollProgressInUnitInterval ==
  0 <= scrollProgress /\ scrollProgress <= 1000

\* C3: whenever the element centre is less than 100px from the viewport
\* centre, the scrollProgress the button's shadow is computed from is 0.
C3_DeadzoneIsZero ==
  (phase = "mounted" /\ hasParentRef
     /\ DistanceFromCenter2(scrollY, windowHeight) < 2 * 100)
  => (scrollProgress = 0
      /\ style = getButtonStyles(isPressed, buttonVisible, 0, variant, theme))

\* everything of a style descriptor but the colour constants of its shadow
Magnitudes(s) ==
  <<s.transform, s.boxShadow.kind, s.boxShadow.x1, s.boxShadow.blur1,
    s.boxShadow.x2, s.boxShadow.blur2, s.boxShadow.glow, s.boxShadow.alpha>>

\* C4: a theme toggle while not pressed, visible and at scrollProgress 0
\* leaves the transform and every numeric magnitude of the style as they were.
C4_ThemeToggleKeepsMagnitudes ==
  [][(theme' # theme /\ ~isPressed /\ buttonVisible /\ scrollProgress = 0)
       => Magnitudes(style') = Magnitudes(style)]_vars

\* C5: no timer outlives the instance or the change that scheduled it: after
\* unmount no timer is pending, and a theme change never leaves the follow-up
\* timer of an earlier theme change pending.
C5_EveryTimerCancelledOnCleanup ==
  /\ phase = "unmounted" => (revealTimer # "pending" /\ themeTimers = 0)
  /\ themeTimers <= 1

\* C6 (as stated): the hover scale is 1.02 when visible and hovered, 1.0 when
\* visible and not hovered, 1 - scrollProgress*0.02 when not visible.
C6_HoverScaleAsStated ==
  result.policy = "cardHover" =>
    /\ (args.visible /\ args.isHovered) => result.scale = 102000
    /\ (args.visible /\ ~args.isHovered) => result.scale = 100000
    /\ ~args.visible => result.scale = 100000 - 2 * args.scrollProgress

\* C6 (amended): the hover scale is 1.02 when visible and hovered, 1.0 when
\* visible and not hovered, and 0.95 when not visible, whatever scrollProgress.
C6_HoverScale ==
  result.policy = "cardHover" =>
    /\ (args.visible /\ args.isHovered) => result.scale = 102000
    /\ (args.visible /\ ~args.isHovered) => result.scale = 100000
    /\ ~args.visible => result.scale = 95000

C6_Witness ==
  /\ result.policy = "cardHover"
  /\ ~args.visible
  /\ args.isHovered
  /\ args.scrollProgress = 1000
  /\ result.scale = 95000

ClaimedBase(pol, a) ==
  IF pol = "button" THEN (IF a.variant = "subtle" THEN 5000 ELSE 10000)
  ELSE IF pol = "cardClick" THEN 10000
  ELSE (IF a.isHovered THEN 8000 ELSE 6000)

ClaimedK(pol, a) ==
  IF pol = "button" THEN (IF a.variant = "subtle" THEN 6 ELSE 12) ELSE 12

C7_IntensityValue ==
  result.policy # "none" =>
    LET d == ClaimedBase(result.policy, args)
               - args.scrollProgress * ClaimedK(result.policy, args)
    IN  /\ result.shadowIntensity = (IF d > 0 THEN d ELSE 0)
        /\ result.shadowIntensity >= 0

C7_IntensityStep ==
  (/\ result.policy # "none"
   /\ result'.policy = result.policy
   /\ args'.scrollProgress >= args.scrollProgress
   /\ args' = [args EXCEPT !.scrollProgress = args'.scrollProgress])
  => result'.shadowIntensity <= result.shadowIntensity

\* C7: for scrollProgress in [0,1] the shadowIntensity of each of the three
\* policies is max(base - progress*k, 0), is never negative, and does not grow
\* when progress grows with the other inputs fixed.
C7_ShadowIntensity ==
  []C7_IntensityValue /\ [][C7_IntensityStep]_vars

C7_Witness ==
  /\ result.policy = "cardClick"
  /\ args.scrollProgress * 12 > 10000
  /\ result.shadowIntensity = 0
  /\ result.boxShadow.x1 = 0

\* C8: the rendered transform scale is 0.95 when buttonVisible is false
\* (pressed or not), 0.98 when visible and pressed, 1.0 when visible and not
\* pressed, whatever scrollProgress and variant are.
C8_ButtonScale ==
  /\ ~buttonVisible => style.transform = 95000
  /\ (buttonVisible /\ isPressed) => style.transform = 98000
  /\ (buttonVisible /\ ~isPressed) => style.transform = 100000

C8_Witness ==
  /\ phase = "mounted"
  /\ ~buttonVisible
  /\ isPressed
  /\ scrollProgress > 0
  /\ style.transform = 95000

\* C9: the card press scale is 0.98 whenever pressed, 1 - scrollProgress*0.02
\* when not pressed and visible, 0.95 when not pressed and not visible.
C9_CardPressScale ==
  result.policy = "cardClick" =>
    /\ args.isPressed => result.scale = 98000
    /\ (~args.isPressed /\ args.visible)
         => result.scale = 100000 - 2 * args.scrollProgress
    /\ (~args.isPressed /\ ~args.visible) => result.scale = 95000

C9_Witness ==
  /\ result.policy = "cardClick"
  /\ args.isPressed
  /\ args.visible
  /\ args.scrollProgress = 1000
  /\ result.scale = 98000

\* C10: once no theme follow-up timer is pending, scrollProgress is the value
\* written by the most recent scroll event (the initial 0 before any).
C10_ForcedRedrawHarmless ==
  (phase = "mounted" /\ themeTimers = 0) => scrollProgress = lastWritten

====
